---- MODULE Spec2Model ----
(***************************************************************************)
(* Model of src/main.go: an authoritative DNS responder with a cache of    *)
(* parsed resource records (rrCache, newRR), a registry of answerable      *)
(* names guarded by a reader/writer mutex (subdomains, muSubdomains,       *)
(* resetSubdomains) and the query handler (handle).                        *)
(*                                                                         *)
(* Every handler goroutine is a process with a program counter; newRR is   *)
(* three steps (Load, dns.NewRR, Store) because the code does not make    *)
(* them atomic.  A Go slice is a multi-word header (pointer, length) over  *)
(* a backing array: the header is written and read one word per step, so   *)
(* that the mutex, and nothing else, is what keeps a reader from seeing a  *)
(* torn header.                                                            *)
(***************************************************************************)
EXTENDS Integers, Sequences, FiniteSets, TLC

\* ------------------------------------------------------------------ bounds
NumHandlers == 2
MaxQueries == 3

Handlers == 1..NumHandlers

\* --------------------------------------------------------------- constants
ParentZone == "t.example.com."
NSName == "ns1.t.example.com."
FixedIP == "192.168.0.11"
FixedTTL == 5

\* main.go:16-21
defaultSubdomains ==
    << "t.example.com.", "ns1.t.example.com.", "www.t.example.com.",
       "test001.t.example.com." >>

\* The backing arrays a slice header can point to.  "default" is the array of
\* defaultSubdomains; the others are lists an administrative replacement
\* installs (no such caller exists in main.go; see Replace).  "bad" holds a
\* string that is not a domain name (an empty label).
MalformedName == "www..t.example.com."

Arrays ==
    [ default |-> defaultSubdomains,
      alt |-> << "www.t.example.com.", "WWW.t.example.com." >>,
      bad |-> << MalformedName >> ]

ArrayIds == DOMAIN Arrays
AdminArrayIds == {"alt"}

\* A slice header naming a whole array.
WholeHeader(a) == [ptr |-> a, len |-> Len(Arrays[a])]

\* The elements a slice header denotes.  A header whose length exceeds its
\* array cannot arise while every header write is made under the write lock.
SliceOf(hdr) ==
    [i \in 1..hdr.len |->
        IF i <= Len(Arrays[hdr.ptr]) THEN Arrays[hdr.ptr][i] ELSE "<out of range>"]

Range(s) == {s[i] : i \in DOMAIN s}

\* ------------------------------------------------------------------ inputs
\* Question names: names of the lists, and variants of them that differ in
\* case, in the trailing dot, or by being a prefix, suffix or superstring
\* (t.example.com. is a suffix of www.t.example.com., and in the default list
\* only; WWW.t.example.com. is in the other list only).
QNames ==
    { "t.example.com.", "www.t.example.com.", "WWW.t.example.com.",
      "www.t.example.com", "www.t.example.com.x." }

QTypes == {"A", "NS", "MX"}

\* First questions: every name with type A, and the other types on the parent
\* zone and on a name of the default list.
Questions ==
    { q \in [Name : QNames, Qtype : QTypes] :
        \/ q.Qtype = "A"
        \/ q.Name = "t.example.com."
        \/ q.Name = "www.t.example.com." /\ q.Qtype = "NS" }

\* Later questions of a multi-question query.
ExtraQuestions == { [Name |-> "www.t.example.com.", Qtype |-> "A"] }

\* First questions that are also sent with a later question attached.
MultiFirst ==
    { q \in Questions :
        \/ q.Name = "t.example.com." /\ q.Qtype = "NS"
        \/ q.Name = "WWW.t.example.com." /\ q.Qtype = "A" }

\* r.Question of the decoded query: a non-empty list of questions.
Queries ==
    {<<q>> : q \in Questions} \cup {<<q, e>> : q \in MultiFirst, e \in ExtraQuestions}

\* ----------------------------------------------------------------- records
\* The record texts handle builds (main.go:57, 60, 69).
NSText == "t.example.com. 5 IN NS ns1.t.example.com."
GlueText == "ns1.t.example.com. 5 IN A 192.168.0.11"
\* A text whose owner is the zone, not the queried name.
ATextZoneOwner(name) == ParentZone \o " 5 IN A 192.168.0.11"

AText(name) == name \o " 5 IN A 192.168.0.11"

\* Relative presentations of owner names, and their fully qualified form.
Stems ==
    { "t.example.com", "ns1.t.example.com", "www.t.example.com",
      "test001.t.example.com", "WWW.t.example.com", "www.t.example.com.x" }

Fqdn(stem) == stem \o "."

\* The parsed form of a record: header fields and type-specific data.
RRFields ==
    [stem : Stems, ttl : {FixedTTL}, class : {"IN"}, rrtype : {"A"}, data : {FixedIP}]
    \cup [stem : Stems, ttl : {FixedTTL}, class : {"IN"}, rrtype : {"NS"},
          data : {NSName}]

\* The presentation format of a record with owner written as `owner`:
\* name TTL class type data.
FormatRR(owner, f) ==
    owner \o " " \o ToString(f.ttl) \o " " \o f.class \o " " \o f.rrtype \o " " \o f.data

\* The texts that present the record f: its owner fully qualified, or relative
\* to the root origin.
Presents(f, s) == s = FormatRR(Fqdn(f.stem), f) \/ s = FormatRR(f.stem, f)

Record(f) ==
    [name |-> Fqdn(f.stem), ttl |-> f.ttl, class |-> f.class, rrtype |-> f.rrtype,
     data |-> f.data]

NilFields == [name |-> "", ttl |-> 0, class |-> "", rrtype |-> "nil", data |-> ""]

\* dns.NewRR(s): the record that s presents; a text that presents no record
\* yields the nil record (the error is discarded at main.go:40).
ParseRR(s) ==
    IF \E f \in RRFields : Presents(f, s)
    THEN Record(CHOOSE f \in RRFields : Presents(f, s))
    ELSE NilFields

\* The nil dns.RR: the zero value of a record variable, and what dns.NewRR
\* returns with its error.
NoRR == [fields |-> NilFields, alloc |-> <<"", 0>>]

\* The value of dns.NewRR(s): a record object, with its parsed fields and which
\* allocation it is (the n-th record built from text s), or nil.  Two objects
\* are the same instance iff equal.
RRObject(s, n) ==
    IF ParseRR(s) = NilFields THEN NoRR ELSE [fields |-> ParseRR(s), alloc |-> <<s, n>>]

\* Every text newRR can be called with.
Texts == {NSText, GlueText} \cup {AText(n) : n \in QNames \cup {MalformedName}}

\* slices.Index / slices.Contains: scan from the first element, compare with ==.
RECURSIVE IndexFrom(_, _, _)
IndexFrom(list, v, i) ==
    IF i > Len(list) THEN -1
    ELSE IF list[i] = v THEN i - 1
    ELSE IndexFrom(list, v, i + 1)

\* The lower-case form of a name.
Fold(name) == IF name = "WWW.t.example.com." THEN "www.t.example.com." ELSE name

\* A comparison that ignores case.
SlicesContainsFold(list, v) == \E i \in 1..Len(list) : Fold(list[i]) = Fold(v)

SlicesContains(list, v) == IndexFrom(list, v, 1) >= 0

\* ------------------------------------------------------------------- state
VARIABLES
    pc,          \* handler -> position in handle / newRR
    query,       \* handler -> r.Question of the query being handled
    m,           \* handler -> the reply message under construction
    sent,        \* handler -> messages passed to w.WriteMsg by this invocation
    snap,        \* handler -> the slice header read from subdomains
    found,       \* handler -> result of slices.Contains
    site,        \* handler -> which newRR call is running: "ns", "glue", "a"
    arg,         \* handler -> the text passed to newRR
    r,           \* handler -> the record built by dns.NewRR in the current or
                 \*            last newRR call (NoRR when it returned a hit)
    ret,         \* handler -> the value the last newRR call returned
    rrCache,     \* text -> record object, for the texts stored
    nBuilt,      \* text -> number of dns.NewRR constructions from that text
    subdomains,  \* the registry's slice header
    readers,     \* handlers holding muSubdomains for reading
    writer,      \* muSubdomains' writer side: "none", "pending", "held"
    wpc,         \* position of the goroutine that changes the registry
    wop,         \* its current or last operation: "none", "reset", "replace"
    wtarget,     \* the array its assignment installs
    nQueries,    \* handle invocations started
    regAtCheck   \* handler -> the registry's elements when it ran the check

hvars == <<pc, query, m, sent, snap, found, site, arg, r, ret, regAtCheck>>
cvars == <<rrCache, nBuilt>>
wvars == <<wpc, wop, wtarget>>
lvars == <<readers, writer>>
vars == <<hvars, cvars, wvars, lvars, subdomains, nQueries>>

EmptyMsg == [Answer |-> <<>>, Extra |-> <<>>]
NoHeader == [ptr |-> "default", len |-> 0]
NoQuery == <<>>

Registry == SliceOf(subdomains)

Init ==
    /\ pc = [h \in Handlers |-> "idle"]
    /\ query = [h \in Handlers |-> NoQuery]
    /\ m = [h \in Handlers |-> EmptyMsg]
    /\ sent = [h \in Handlers |-> <<>>]
    /\ snap = [h \in Handlers |-> NoHeader]
    /\ found = [h \in Handlers |-> FALSE]
    /\ site = [h \in Handlers |-> "none"]
    /\ arg = [h \in Handlers |-> ""]
    /\ r = [h \in Handlers |-> NoRR]
    /\ ret = [h \in Handlers |-> NoRR]
    /\ regAtCheck = [h \in Handlers |-> <<>>]
    /\ rrCache = [k \in {} |-> NoRR]
    /\ nBuilt = [k \in Texts |-> 0]
    /\ subdomains = WholeHeader("default")
    /\ readers = {}
    /\ writer = "none"
    /\ wpc = "idle"
    /\ wop = "none"
    /\ wtarget = "default"
    /\ nQueries = 0

\* ------------------------------------------------------------------ handle
\* A delegation test on the last question of the query.
IsDelegationLast(q) == q[Len(q)].Qtype = "NS" /\ q[Len(q)].Name = ParentZone

\* A delegation test on the type alone.
IsDelegationAnyNS(q) == q[1].Qtype = "NS"

\* main.go:55: the delegation test on the first question.
IsDelegation(q) == q[1].Qtype = "NS" /\ q[1].Name = ParentZone

\* A handle that takes the read lock for every query, the delegation query
\* included.
ReceiveAlwaysLocks(h, q) ==
    /\ pc[h] \in {"idle", "done"}
    /\ nQueries < MaxQueries
    /\ nQueries' = nQueries + 1
    /\ query' = [query EXCEPT ![h] = q]
    /\ m' = [m EXCEPT ![h] = EmptyMsg]
    /\ sent' = [sent EXCEPT ![h] = <<>>]
    /\ snap' = [snap EXCEPT ![h] = NoHeader]
    /\ found' = [found EXCEPT ![h] = FALSE]
    /\ ret' = [ret EXCEPT ![h] = NoRR]
    /\ regAtCheck' = [regAtCheck EXCEPT ![h] = <<>>]
    /\ site' = [site EXCEPT ![h] = "none"]
    /\ arg' = [arg EXCEPT ![h] = ""]
    /\ pc' = [pc EXCEPT ![h] = "rlock"]
    /\ r' = [r EXCEPT ![h] = NoRR]
    /\ UNCHANGED <<cvars, wvars, lvars, subdomains>>

\* main.go:47-57, 62: a goroutine enters handle with a decoded query (the
\* goroutine of an earlier query has returned and its locals are gone); m is
\* the reply with no records yet; the branch on the first question is taken,
\* and the delegation case calls newRR for the NS record.
Receive(h, q) ==
    /\ pc[h] \in {"idle", "done"}
    /\ nQueries < MaxQueries
    /\ nQueries' = nQueries + 1
    /\ query' = [query EXCEPT ![h] = q]
    /\ m' = [m EXCEPT ![h] = EmptyMsg]
    /\ sent' = [sent EXCEPT ![h] = <<>>]
    /\ snap' = [snap EXCEPT ![h] = NoHeader]
    /\ found' = [found EXCEPT ![h] = FALSE]
    /\ ret' = [ret EXCEPT ![h] = NoRR]
    /\ regAtCheck' = [regAtCheck EXCEPT ![h] = <<>>]
    /\ IF IsDelegation(q)
       THEN /\ site' = [site EXCEPT ![h] = "ns"]
            /\ arg' = [arg EXCEPT ![h] = NSText]
            /\ pc' = [pc EXCEPT ![h] = "load"]
       ELSE /\ site' = [site EXCEPT ![h] = "none"]
            /\ arg' = [arg EXCEPT ![h] = ""]
            /\ pc' = [pc EXCEPT ![h] = "rlock"]
    /\ r' = [r EXCEPT ![h] = NoRR]
    /\ UNCHANGED <<cvars, wvars, lvars, subdomains>>

\* An RLock that does not look at the writer.
RLockNoWait(h) ==
    /\ pc[h] = "rlock"
    /\ readers' = readers \cup {h}
    /\ pc' = [pc EXCEPT ![h] = "readPtr"]
    /\ UNCHANGED <<query, m, sent, snap, found, site, arg, r, ret, regAtCheck, cvars,
                   wvars, writer, subdomains, nQueries>>

\* main.go:63: muSubdomains.RLock() blocks while a writer holds or awaits the lock.
RLock(h) ==
    /\ pc[h] = "rlock"
    /\ writer = "none"
    /\ readers' = readers \cup {h}
    /\ pc' = [pc EXCEPT ![h] = "readPtr"]
    /\ UNCHANGED <<query, m, sent, snap, found, site, arg, r, ret, regAtCheck, cvars,
                   wvars, writer, subdomains, nQueries>>

\* main.go:67: the argument subdomains is read, first its pointer word.
ReadPtr(h) ==
    /\ pc[h] = "readPtr"
    /\ snap' = [snap EXCEPT ![h] = [ptr |-> subdomains.ptr, len |-> 0]]
    /\ pc' = [pc EXCEPT ![h] = "readLen"]
    /\ UNCHANGED <<query, m, sent, found, site, arg, r, ret, regAtCheck, cvars, wvars,
                   lvars, subdomains, nQueries>>

\* The check without the return of main.go:73: a miss falls through to WriteMsg.
ContainsNoReturn(h) ==
    /\ pc[h] = "readLen"
    /\ LET hdr == [snap[h] EXCEPT !.len = subdomains.len]
           hit == SlicesContains(SliceOf(hdr), query[h][1].Name)
       IN /\ snap' = [snap EXCEPT ![h] = hdr]
          /\ found' = [found EXCEPT ![h] = hit]
          /\ IF hit
             THEN /\ site' = [site EXCEPT ![h] = "a"]
                  /\ arg' = [arg EXCEPT ![h] = AText(query[h][1].Name)]
                  /\ pc' = [pc EXCEPT ![h] = "load"]
             ELSE /\ pc' = [pc EXCEPT ![h] = "write"]
                  /\ UNCHANGED <<site, arg>>
    /\ regAtCheck' = [regAtCheck EXCEPT ![h] = Registry]
    /\ UNCHANGED <<query, m, sent, r, ret, cvars, wvars, lvars, subdomains, nQueries>>

\* A drop that returns without running the deferred RUnlock.
ContainsDropLeaks(h) ==
    /\ pc[h] = "readLen"
    /\ LET hdr == [snap[h] EXCEPT !.len = subdomains.len]
           hit == SlicesContains(SliceOf(hdr), query[h][1].Name)
       IN /\ snap' = [snap EXCEPT ![h] = hdr]
          /\ found' = [found EXCEPT ![h] = hit]
          /\ IF hit
             THEN /\ site' = [site EXCEPT ![h] = "a"]
                  /\ arg' = [arg EXCEPT ![h] = AText(query[h][1].Name)]
                  /\ pc' = [pc EXCEPT ![h] = "load"]
             ELSE /\ pc' = [pc EXCEPT ![h] = "done"]
                  /\ UNCHANGED <<site, arg>>
    /\ regAtCheck' = [regAtCheck EXCEPT ![h] = Registry]
    /\ UNCHANGED <<query, m, sent, r, ret, cvars, wvars, lvars, subdomains, nQueries>>

\* A check that gives the read lock back as soon as slices.Contains returned.
ContainsThenUnlock(h) ==
    /\ pc[h] = "readLen"
    /\ LET hdr == [snap[h] EXCEPT !.len = subdomains.len]
           hit == SlicesContains(SliceOf(hdr), query[h][1].Name)
       IN /\ snap' = [snap EXCEPT ![h] = hdr]
          /\ found' = [found EXCEPT ![h] = hit]
          /\ IF hit
             THEN /\ site' = [site EXCEPT ![h] = "a"]
                  /\ arg' = [arg EXCEPT ![h] = AText(query[h][1].Name)]
                  /\ pc' = [pc EXCEPT ![h] = "load"]
             ELSE /\ pc' = [pc EXCEPT ![h] = "done"]
                  /\ UNCHANGED <<site, arg>>
    /\ regAtCheck' = [regAtCheck EXCEPT ![h] = Registry]
    /\ readers' = readers \ {h}
    /\ UNCHANGED <<query, m, sent, r, ret, cvars, wvars, writer, subdomains, nQueries>>

\* A check whose miss calls newRR for the name all the same and drops after.
ContainsBuildsOnMiss(h) ==
    /\ pc[h] = "readLen"
    /\ LET hdr == [snap[h] EXCEPT !.len = subdomains.len]
           hit == SlicesContains(SliceOf(hdr), query[h][1].Name)
       IN /\ snap' = [snap EXCEPT ![h] = hdr]
          /\ found' = [found EXCEPT ![h] = hit]
          /\ site' = [site EXCEPT ![h] = "a"]
          /\ arg' = [arg EXCEPT ![h] = AText(query[h][1].Name)]
          /\ pc' = [pc EXCEPT ![h] = "load"]
    /\ regAtCheck' = [regAtCheck EXCEPT ![h] = Registry]
    /\ UNCHANGED <<query, m, sent, r, ret, cvars, wvars, lvars, subdomains, nQueries>>

\* main.go:67-74: then its length word, and slices.Contains runs over the
\* slice read; on true newRR is called for the A record, on false handle
\* returns (its deferred RUnlock runs next).
Contains(h) ==
    /\ pc[h] = "readLen"
    /\ LET hdr == [snap[h] EXCEPT !.len = subdomains.len]
           hit == SlicesContains(SliceOf(hdr), query[h][1].Name)
       IN /\ snap' = [snap EXCEPT ![h] = hdr]
          /\ found' = [found EXCEPT ![h] = hit]
          /\ IF hit
             THEN /\ site' = [site EXCEPT ![h] = "a"]
                  /\ arg' = [arg EXCEPT ![h] = AText(query[h][1].Name)]
                  /\ pc' = [pc EXCEPT ![h] = "load"]
             ELSE /\ pc' = [pc EXCEPT ![h] = "runlock"]
                  /\ UNCHANGED <<site, arg>>
    /\ regAtCheck' = [regAtCheck EXCEPT ![h] = Registry]
    /\ UNCHANGED <<query, m, sent, r, ret, cvars, wvars, lvars, subdomains, nQueries>>

\* A return that appends the glue record to Answer and leaves Extra empty.
ReturnRRGlueInAnswer(h, rec) ==
    /\ ret' = [ret EXCEPT ![h] = rec]
    /\ IF site[h] = "ns"
       THEN /\ m' = [m EXCEPT ![h].Answer = <<rec>>]
            /\ site' = [site EXCEPT ![h] = "glue"]
            /\ arg' = [arg EXCEPT ![h] = GlueText]
            /\ pc' = [pc EXCEPT ![h] = "load"]
       ELSE /\ m' = IF site[h] = "glue"
                    THEN [m EXCEPT ![h].Answer = Append(@, rec)]
                    ELSE [m EXCEPT ![h].Answer = <<rec>>]
            /\ pc' = [pc EXCEPT ![h] = "write"]
            /\ UNCHANGED <<site, arg>>

\* The return of a newRR call with value rec to its call site in handle:
\* main.go:56-60 (Answer, then the call for Extra), 59-61, 68-70.
ReturnRR(h, rec) ==
    /\ ret' = [ret EXCEPT ![h] = rec]
    /\ IF site[h] = "ns"
       THEN /\ m' = [m EXCEPT ![h].Answer = <<rec>>]
            /\ site' = [site EXCEPT ![h] = "glue"]
            /\ arg' = [arg EXCEPT ![h] = GlueText]
            /\ pc' = [pc EXCEPT ![h] = "load"]
       ELSE /\ m' = IF site[h] = "glue"
                    THEN [m EXCEPT ![h].Extra = <<rec>>]
                    ELSE [m EXCEPT ![h].Answer = <<rec>>]
            /\ pc' = [pc EXCEPT ![h] = "write"]
            /\ UNCHANGED <<site, arg>>

\* newRR without the lookup: every call builds.
LoadAlwaysBuild(h) ==
    /\ pc[h] = "load"
    /\ r' = [r EXCEPT ![h] = RRObject(arg[h], nBuilt[arg[h]] + 1)]
    /\ nBuilt' = [nBuilt EXCEPT ![arg[h]] = @ + 1]
    /\ pc' = [pc EXCEPT ![h] = "store"]
    /\ UNCHANGED <<m, site, arg, ret>>
    /\ UNCHANGED <<query, sent, snap, found, regAtCheck, rrCache, wvars, lvars,
                   subdomains, nQueries>>

\* A hit that returns a copy of the stored record instead of the record.
LoadHitCopies(h) ==
    /\ pc[h] = "load"
    /\ IF arg[h] \in DOMAIN rrCache
       THEN /\ ReturnRR(h, [rrCache[arg[h]] EXCEPT !.alloc = <<arg[h], nBuilt[arg[h]] + 1>>])
            /\ r' = [r EXCEPT ![h] = NoRR]
            /\ UNCHANGED nBuilt
       ELSE /\ r' = [r EXCEPT ![h] = RRObject(arg[h], nBuilt[arg[h]] + 1)]
            /\ nBuilt' = [nBuilt EXCEPT ![arg[h]] = @ + 1]
            /\ pc' = [pc EXCEPT ![h] = "store"]
            /\ UNCHANGED <<m, site, arg, ret>>
    /\ UNCHANGED <<query, sent, snap, found, regAtCheck, rrCache, wvars, lvars,
                   subdomains, nQueries>>

\* main.go:37-40: rrCache.Load(s); a hit returns the stored value through the
\* type assertion rr.(dns.RR), which panics when the stored value is nil; a
\* miss goes on to r, _ := dns.NewRR(s), which allocates a new record object.
Load(h) ==
    /\ pc[h] = "load"
    /\ IF arg[h] \in DOMAIN rrCache
       THEN IF rrCache[arg[h]] = NoRR
            THEN /\ pc' = [pc EXCEPT ![h] = "panic"]
                 /\ UNCHANGED <<m, site, arg, ret, r, nBuilt>>
            ELSE /\ ReturnRR(h, rrCache[arg[h]])
                 /\ r' = [r EXCEPT ![h] = NoRR]
                 /\ UNCHANGED nBuilt
       ELSE /\ r' = [r EXCEPT ![h] = RRObject(arg[h], nBuilt[arg[h]] + 1)]
            /\ nBuilt' = [nBuilt EXCEPT ![arg[h]] = @ + 1]
            /\ pc' = [pc EXCEPT ![h] = "store"]
            /\ UNCHANGED <<m, site, arg, ret>>
    /\ UNCHANGED <<query, sent, snap, found, regAtCheck, rrCache, wvars, lvars,
                   subdomains, nQueries>>

\* A store keyed by the record's data only: every A record of the fixed
\* address shares the key of the glue record.
StoreKeyedByData(h) ==
    /\ pc[h] = "store"
    /\ LET key == IF site[h] = "ns" THEN arg[h] ELSE GlueText
       IN rrCache' = [k \in DOMAIN rrCache \cup {key} |->
                         IF k = key THEN r[h] ELSE rrCache[k]]
    /\ ReturnRR(h, r[h])
    /\ UNCHANGED <<query, sent, snap, found, r, regAtCheck, nBuilt, wvars, lvars,
                   subdomains, nQueries>>

\* A newRR that returns the record it built without storing it.
StoreSkips(h) ==
    /\ pc[h] = "store"
    /\ rrCache' = rrCache
    /\ ReturnRR(h, r[h])
    /\ UNCHANGED <<query, sent, snap, found, r, regAtCheck, nBuilt, wvars, lvars,
                   subdomains, nQueries>>

\* main.go:41-42: rrCache.Store(s, r); return r.
Store(h) ==
    /\ pc[h] = "store"
    /\ rrCache' = [k \in DOMAIN rrCache \cup {arg[h]} |->
                      IF k = arg[h] THEN r[h] ELSE rrCache[k]]
    /\ ReturnRR(h, r[h])
    /\ UNCHANGED <<query, sent, snap, found, r, regAtCheck, nBuilt, wvars, lvars,
                   subdomains, nQueries>>

\* main.go:76: w.WriteMsg(m); then handle returns, through the deferred
\* RUnlock when the lookup branch was taken.
WriteMsg(h) ==
    /\ pc[h] = "write"
    /\ sent' = [sent EXCEPT ![h] = Append(@, m[h])]
    /\ pc' = [pc EXCEPT ![h] = IF h \in readers THEN "runlock" ELSE "done"]
    /\ UNCHANGED <<query, m, snap, found, site, arg, r, ret, regAtCheck, cvars, wvars,
                   lvars, subdomains, nQueries>>

\* main.go:64: the deferred muSubdomains.RUnlock().
RUnlock(h) ==
    /\ pc[h] = "runlock"
    /\ readers' = readers \ {h}
    /\ pc' = [pc EXCEPT ![h] = "done"]
    /\ UNCHANGED <<query, m, sent, snap, found, site, arg, r, ret, regAtCheck, cvars,
                   wvars, writer, subdomains, nQueries>>

\* --------------------------------------------------------- resetSubdomains
\* A reset that assigns the registry to itself.
ResetCallKeepsCurrent ==
    /\ wpc = "idle"
    /\ wop' = "reset"
    /\ wtarget' = subdomains.ptr
    /\ writer' = "pending"
    /\ wpc' = "wait"
    /\ UNCHANGED <<hvars, cvars, readers, subdomains, nQueries>>

\* main.go:27-28: resetSubdomains is called, to install defaultSubdomains;
\* muSubdomains.Lock() first announces the writer, which keeps new readers out ...
ResetCall ==
    /\ wpc = "idle"
    /\ wop' = "reset"
    /\ wtarget' = "default"
    /\ writer' = "pending"
    /\ wpc' = "wait"
    /\ UNCHANGED <<hvars, cvars, readers, subdomains, nQueries>>

\* The administrative replacement of the allow-list by another list, made the
\* way resetSubdomains makes its own: under the write lock.
ReplaceCall(a) ==
    /\ wpc = "idle"
    /\ wop' = "replace"
    /\ wtarget' = a
    /\ writer' = "pending"
    /\ wpc' = "wait"
    /\ UNCHANGED <<hvars, cvars, readers, subdomains, nQueries>>

\* A Lock that does not wait for the readers to leave.
WAcquireNoWait ==
    /\ wpc = "wait"
    /\ writer' = "held"
    /\ wpc' = "wptr"
    /\ UNCHANGED <<hvars, cvars, wop, wtarget, readers, subdomains, nQueries>>

\* ... and returns once the readers that held the lock have released it.
WAcquire ==
    /\ wpc = "wait"
    /\ readers = {}
    /\ writer' = "held"
    /\ wpc' = "wptr"
    /\ UNCHANGED <<hvars, cvars, wop, wtarget, readers, subdomains, nQueries>>

\* An assignment that also empties the record cache.
WritePtrClearsCache ==
    /\ wpc = "wptr"
    /\ subdomains' = [subdomains EXCEPT !.ptr = wtarget]
    /\ rrCache' = [k \in {} |-> NoRR]
    /\ wpc' = "wlen"
    /\ UNCHANGED <<hvars, nBuilt, wop, wtarget, lvars, nQueries>>

\* main.go:30: subdomains = ...; the pointer word is written,
WritePtr ==
    /\ wpc = "wptr"
    /\ subdomains' = [subdomains EXCEPT !.ptr = wtarget]
    /\ wpc' = "wlen"
    /\ UNCHANGED <<hvars, cvars, wop, wtarget, lvars, nQueries>>

\* An assignment of the empty prefix of the list.
WriteLenZero ==
    /\ wpc = "wlen"
    /\ subdomains' = [subdomains EXCEPT !.len = 0]
    /\ wpc' = "unlock"
    /\ UNCHANGED <<hvars, cvars, wop, wtarget, lvars, nQueries>>

\* main.go:30: then the length word.
WriteLen ==
    /\ wpc = "wlen"
    /\ subdomains' = [subdomains EXCEPT !.len = Len(Arrays[wtarget])]
    /\ wpc' = "unlock"
    /\ UNCHANGED <<hvars, cvars, wop, wtarget, lvars, nQueries>>

\* main.go:29: the deferred muSubdomains.Unlock().
WUnlock ==
    /\ wpc = "unlock"
    /\ writer' = "none"
    /\ wpc' = "idle"
    /\ UNCHANGED <<hvars, cvars, wop, wtarget, readers, subdomains, nQueries>>

\* ----------------------------------------------------------- specifications
HandlerStep(h) ==
    \/ \E q \in Queries : Receive(h, q)
    \/ RLock(h)
    \/ ReadPtr(h)
    \/ Contains(h)
    \/ Load(h)
    \/ Store(h)
    \/ WriteMsg(h)
    \/ RUnlock(h)

ResetStep == ResetCall \/ WAcquire \/ WritePtr \/ WriteLen \/ WUnlock

\* The program of main.go: handlers and resetSubdomains.
Next == (\E h \in Handlers : HandlerStep(h)) \/ ResetStep

Spec == Init /\ [][Next]_vars

\* The program with an administrator that also replaces the allow-list.
NextAdmin == Next \/ (\E a \in AdminArrayIds : ReplaceCall(a))

SpecAdmin == Init /\ [][NextAdmin]_vars

\* The queries of the fair program: the delegation query, a query that is
\* answered and one that is dropped.
FairQueries ==
    { << [Name |-> ParentZone, Qtype |-> "NS"] >>,
      << [Name |-> "www.t.example.com.", Qtype |-> "A"] >>,
      << [Name |-> "WWW.t.example.com.", Qtype |-> "A"] >> }

\* The program of main.go, action by action.
NextFair ==
    \/ \E h \in Handlers, q \in FairQueries : Receive(h, q)
    \/ \E h \in Handlers : RLock(h)
    \/ \E h \in Handlers : ReadPtr(h)
    \/ \E h \in Handlers : Contains(h)
    \/ \E h \in Handlers : Load(h)
    \/ \E h \in Handlers : Store(h)
    \/ \E h \in Handlers : WriteMsg(h)
    \/ \E h \in Handlers : RUnlock(h)
    \/ ResetCall
    \/ WAcquire
    \/ WritePtr
    \/ WriteLen
    \/ WUnlock

\* The steps of a running handler other than RLock, and of a running
\* resetSubdomains: the scheduler runs every goroutine that can run, and
\* w.WriteMsg returns.
HandlerRun(h) ==
    ReadPtr(h) \/ Contains(h) \/ Load(h) \/ Store(h) \/ WriteMsg(h) \/ RUnlock(h)

WriterRun == WAcquire \/ WritePtr \/ WriteLen \/ WUnlock

\* Fair scheduling.  RWMutex.Unlock hands the lock to the readers that were
\* blocked in RLock before a later Lock can announce itself, so a reader that
\* can enter again and again does enter: strong fairness for RLock.
SpecFair ==
    /\ Init
    /\ [][NextFair]_vars
    /\ \A h \in Handlers : WF_vars(HandlerRun(h)) /\ SF_vars(RLock(h))
    /\ WF_vars(WriterRun)

\* A panic in a handler goroutine is not recovered: the process ends.
Crashed == \E h \in Handlers : pc[h] = "panic"

\* Queries for the name of the list "bad", and the delegation query.
MalformedQueries ==
    { << [Name |-> MalformedName, Qtype |-> "A"] >>,
      << [Name |-> ParentZone, Qtype |-> "NS"] >> }

\* The program with an administrator that installs the list "bad", and with
\* queries for its name; nothing runs once the process has ended.
NextMalformed ==
    \/ \E h \in Handlers, q \in MalformedQueries : ~Crashed /\ Receive(h, q)
    \/ \E h \in Handlers : ~Crashed /\ RLock(h)
    \/ \E h \in Handlers : ~Crashed /\ ReadPtr(h)
    \/ \E h \in Handlers : ~Crashed /\ Contains(h)
    \/ \E h \in Handlers : ~Crashed /\ Load(h)
    \/ \E h \in Handlers : ~Crashed /\ Store(h)
    \/ \E h \in Handlers : ~Crashed /\ WriteMsg(h)
    \/ \E h \in Handlers : ~Crashed /\ RUnlock(h)
    \/ ~Crashed /\ ResetCall
    \/ ~Crashed /\ ReplaceCall("bad")
    \/ ~Crashed /\ WAcquire
    \/ ~Crashed /\ WritePtr
    \/ ~Crashed /\ WriteLen
    \/ ~Crashed /\ WUnlock

SpecMalformed == Init /\ [][NextMalformed]_vars

\* ------------------------------------------------------------------ claims
\* Positions of a handler on the lookup branch after slices.Contains returned.
AfterCheck == {"load", "store", "write", "runlock", "done"}

Q1(h) == query[h][1]

\* The handler took the lookup branch and has run the membership check.
Checked(h) == pc[h] \in AfterCheck /\ ~IsDelegation(query[h])

\* The expected parsed form of the A record of a name, of the delegation NS
\* record and of the glue record.
ARecordOf(name) ==
    [name |-> name, ttl |-> 5, class |-> "IN", rrtype |-> "A", data |-> "192.168.0.11"]

NSRecord ==
    [name |-> "t.example.com.", ttl |-> 5, class |-> "IN", rrtype |-> "NS",
     data |-> "ns1.t.example.com."]

GlueRecord == ARecordOf("ns1.t.example.com.")

\* C1: a query that is not the delegation case and whose name is not an
\* element of the registry when the membership check runs is never answered:
\* nothing is passed to WriteMsg before the check, and after a failed check
\* the handler is on the return path with nothing sent.
C1_DropWhenNotContained ==
    \A h \in Handlers :
        (pc[h] # "idle" /\ ~IsDelegation(query[h])) =>
            /\ ~Checked(h) => sent[h] = <<>>
            /\ (Checked(h) /\ Q1(h).Name \notin Range(regAtCheck[h])) =>
                   (sent[h] = <<>> /\ pc[h] \in {"runlock", "done"})

\* A dropped query has returned, while another handler answered one and the
\* registry was being replaced.
C1_Witness ==
    \E h \in Handlers, g \in Handlers :
        /\ pc[h] = "done" /\ ~IsDelegation(query[h])
        /\ Q1(h).Name \notin Range(regAtCheck[h])
        /\ sent[h] = <<>>
        /\ g # h /\ Len(sent[g]) = 1
        /\ wop = "replace"

\* C2: a type-A query whose name N is in the registry when the check runs is
\* answered exactly once, with Answer = [the A record N 5 IN A 192.168.0.11]
\* and an empty Extra.
C2_AResponse ==
    \A h \in Handlers :
        (Checked(h) /\ Q1(h).Qtype = "A" /\ Q1(h).Name \in Range(regAtCheck[h])) =>
            /\ Len(sent[h]) <= 1
            /\ pc[h] \in {"runlock", "done"} =>
                   /\ Len(sent[h]) = 1
                   /\ sent[h][1].Extra = <<>>
                   /\ Len(sent[h][1].Answer) = 1
                   /\ sent[h][1].Answer[1].fields = ARecordOf(Q1(h).Name)
                   /\ sent[h][1].Answer[1].alloc[1] = Q1(h).Name \o " 5 IN A 192.168.0.11"

\* An A query for a name of a replaced registry has been answered.
C2_Witness ==
    \E h \in Handlers :
        /\ pc[h] = "done" /\ Q1(h) = [Name |-> "WWW.t.example.com.", Qtype |-> "A"]
        /\ Len(sent[h]) = 1
        /\ sent[h][1].Answer[1].fields.name = "WWW.t.example.com."

\* C3: the delegation query (NS, t.example.com.) is answered exactly once with
\* Answer = [t.example.com. 5 IN NS ns1.t.example.com.] and
\* Extra = [ns1.t.example.com. 5 IN A 192.168.0.11], whatever the registry holds.
C3_DelegationResponse ==
    \A h \in Handlers :
        (pc[h] # "idle" /\ IsDelegation(query[h])) =>
            /\ Len(sent[h]) <= 1
            /\ pc[h] = "done" =>
                   /\ Len(sent[h]) = 1
                   /\ Len(sent[h][1].Answer) = 1
                   /\ sent[h][1].Answer[1].fields = NSRecord
                   /\ Len(sent[h][1].Extra) = 1
                   /\ sent[h][1].Extra[1].fields = GlueRecord

\* The only query so far is a delegation query, answered while the registry
\* holds a list without t.example.com. and ns1.t.example.com.
C3_Witness ==
    \E h \in Handlers :
        /\ nQueries = 1
        /\ pc[h] = "done" /\ IsDelegation(query[h])
        /\ Len(sent[h]) = 1
        /\ subdomains = WholeHeader("alt")
        /\ wop = "replace" /\ wpc = "idle"

\* The headers of whole lists: what the registry holds between assignments.
WholeHeaders == {WholeHeader(a) : a \in ArrayIds}

\* C4: every membership check runs over one whole value of the registry, never
\* a mix of the list before and the list after an assignment: the slice read
\* is a whole list, it is the registry's value for as long as the read lock
\* is held, and the result is membership in that list.
C4_ConsistentSnapshot ==
    \A h \in Handlers :
        Checked(h) =>
            /\ snap[h] \in WholeHeaders
            /\ SliceOf(snap[h]) = regAtCheck[h]
            /\ h \in readers => snap[h] = subdomains
            /\ found[h] <=> (Q1(h).Name \in Range(Arrays[snap[h].ptr]))

\* A check ran over the replaced list while a reset was waiting for the lock,
\* and another ran over the default list.
C4_Witness ==
    \E h \in Handlers, g \in Handlers :
        /\ Checked(h) /\ h \in readers /\ snap[h] = WholeHeader("alt")
        /\ wop = "reset" /\ wpc = "wait"
        /\ Checked(g) /\ snap[g] = WholeHeader("default")

\* Handlers between the miss and the store of a newRR call for text k.
Building(k) == {h \in Handlers : pc[h] = "store" /\ arg[h] = k}

Returns(h) ==
    /\ pc[h] \in {"load", "store"}
    /\ pc'[h] = "write" \/ (site[h] = "ns" /\ site'[h] = "glue")

\* C6 as stated: once a record is stored under a text, the binding never
\* changes and every call returning for that text returns the stored instance.
C6_BindingNeverChanges ==
    [][\A k \in DOMAIN rrCache :
          /\ k \in DOMAIN rrCache' /\ rrCache'[k] = rrCache[k]
          /\ \A h \in Handlers : (Returns(h) /\ arg[h] = k) => ret'[h] = rrCache[k]]_vars

\* C6: once a record is stored under a text and no call that missed for that
\* text is still before its store, the binding never changes again, no later
\* call builds, and every call returning for that text returns the stored
\* instance.
C6_BindingStableOnceQuiet ==
    [][\A k \in DOMAIN rrCache :
          Building(k) = {} =>
              /\ k \in DOMAIN rrCache' /\ rrCache'[k] = rrCache[k]
              /\ \A h \in Handlers : ~(pc'[h] = "store" /\ arg'[h] = k)
              /\ \A h \in Handlers : (Returns(h) /\ arg[h] = k) => ret'[h] = rrCache[k]]_vars

\* After two racing calls stored a text, a later call found it and returned
\* the stored instance.
C6_Witness ==
    \E h \in Handlers :
        /\ pc[h] \in {"write", "runlock", "done"}
        /\ r[h] = NoRR /\ ret[h] # NoRR
        /\ arg[h] \in DOMAIN rrCache /\ ret[h] = rrCache[arg[h]]
        /\ nBuilt[arg[h]] = 2 /\ Building(arg[h]) = {}

\* Handlers whose last newRR call has returned to handle for good.
Returned(h) == pc[h] \in {"write", "runlock", "done"} /\ ret[h] # NoRR

\* C7: every value a newRR call returns is the complete parse of the text it
\* was called with, concurrent calls with one text return semantically equal
\* records, and every cache entry is the parse of its own key.
C7_SemanticallyEqual ==
    /\ \A k \in DOMAIN rrCache :
          /\ rrCache[k].fields = ParseRR(k)
          /\ rrCache[k].fields # NilFields
          /\ rrCache[k].alloc[1] = k
    /\ \A h \in Handlers :
          /\ (Returned(h) /\ site[h] = "a") => ret[h].fields = ARecordOf(Q1(h).Name)
          /\ (Returned(h) /\ site[h] = "glue") =>
                 (ret[h].fields = GlueRecord /\ m[h].Answer[1].fields = NSRecord)
          /\ (pc[h] \in {"load", "store"} /\ site[h] = "glue") => ret[h].fields = NSRecord
    /\ \A h \in Handlers, g \in Handlers :
          (Returned(h) /\ Returned(g) /\ arg[h] = arg[g]) => ret[h].fields = ret[g].fields

\* Two overlapping calls with one text returned two different instances.
C7_Witness ==
    \E h \in Handlers, g \in Handlers :
        /\ Returned(h) /\ Returned(g) /\ arg[h] = arg[g]
        /\ ret[h].alloc # ret[g].alloc
        /\ ret[h].fields = ret[g].fields

\* Pairs <<v, n>>: v differs from the name n in case, lacks its trailing dot
\* (a proper prefix), is a proper suffix, or is a superstring.
Variants ==
    { <<"WWW.t.example.com.", "www.t.example.com.">>,
      <<"www.t.example.com.", "WWW.t.example.com.">>,
      <<"www.t.example.com", "www.t.example.com.">>,
      <<"t.example.com.", "www.t.example.com.">>,
      <<"t.example.com.", "WWW.t.example.com.">>,
      <<"www.t.example.com.x.", "www.t.example.com.">> }

\* C8: the membership check is true iff the queried name equals an element of
\* the registry; a variant of an allowed name that is not itself an element is
\* not contained and the query is dropped.
C8_ExactMatch ==
    \A h \in Handlers :
        Checked(h) =>
            /\ found[h] <=> (Q1(h).Name \in Range(regAtCheck[h]))
            /\ \A v \in Variants :
                   (Q1(h).Name = v[1] /\ v[2] \in Range(regAtCheck[h])
                        /\ v[1] \notin Range(regAtCheck[h])) =>
                       (~found[h] /\ sent[h] = <<>> /\ pc[h] \in {"runlock", "done"})

\* A differently-cased variant and a proper suffix of allowed names were dropped.
C8_Witness ==
    \E h \in Handlers, g \in Handlers :
        /\ pc[h] = "done" /\ Q1(h).Name = "WWW.t.example.com."
        /\ "www.t.example.com." \in Range(regAtCheck[h])
        /\ ~found[h] /\ sent[h] = <<>>
        /\ pc[g] = "done" /\ Q1(g).Name = "t.example.com." /\ Q1(g).Qtype = "A"
        /\ "www.t.example.com." \in Range(regAtCheck[g])
        /\ ~found[g] /\ sent[g] = <<>>

DefaultNames ==
    {"t.example.com.", "ns1.t.example.com.", "www.t.example.com.", "test001.t.example.com."}

\* C9: from the completion of resetSubdomains until the next change of the
\* registry, the registry is the default list: the membership check is true
\* for exactly the default names.
C9_ResetRestoresDefaults ==
    (wop = "reset" /\ wpc \in {"unlock", "idle"}) =>
        /\ Registry = defaultSubdomains
        /\ \A n \in QNames \cup DefaultNames :
               SlicesContains(Registry, n) <=> n \in DefaultNames
        /\ \A h \in Handlers :
               (Checked(h) /\ h \in readers) => (found[h] <=> Q1(h).Name \in DefaultNames)

\* A reset completed after the registry held another list: one query for a
\* name of that list was answered from it, one checked against the restored
\* default list was dropped.
C9_Witness ==
    \E h \in Handlers, g \in Handlers :
        /\ wop = "reset" /\ wpc = "idle"
        /\ pc[h] = "done" /\ snap[h] = WholeHeader("alt")
        /\ Q1(h).Name = "WWW.t.example.com." /\ found[h]
        /\ Checked(g) /\ g \in readers /\ Q1(g).Name = "WWW.t.example.com." /\ ~found[g]

\* C10: the registry is never empty, at any point of any resetSubdomains.
C10_NonEmpty ==
    /\ subdomains.len >= 1
    /\ Len(Registry) >= 1
    /\ \A h \in Handlers : Checked(h) => Len(regAtCheck[h]) >= 1

\* A reset is between its two word writes while a handler waits for the lock.
C10_Witness ==
    \E h \in Handlers :
        /\ wop = "reset" /\ wpc = "wlen"
        /\ pc[h] = "rlock"
\* C11: resetSubdomains never holds the write lock while a handler holds the
\* read lock; subdomains is assigned only while the write lock is held, and
\* read by the lookup path only while a read lock is held.
C11_ReaderWriterExclusion ==
    /\ ~(writer = "held" /\ readers # {})
    /\ wpc \in {"wptr", "wlen", "unlock"} <=> writer = "held"
    /\ \A h \in Handlers :
          /\ pc[h] \in {"readPtr", "readLen"} => (h \in readers /\ writer # "held")
          /\ h \in readers => pc[h] \in {"readPtr", "readLen", "load", "store", "write",
                                         "runlock"}

\* Two handlers hold the read lock at the same time, both reading subdomains,
\* while resetSubdomains waits in Lock.
C11_Witness ==
    /\ Cardinality(readers) = 2
    /\ \A h \in Handlers : pc[h] \in {"readPtr", "readLen"}
    /\ wop = "reset" /\ wpc = "wait" /\ writer = "pending"
\* C12: every query other than (NS, t.example.com.) takes the lookup case
\* whatever its type, and its outcome depends only on whether its name is in
\* the registry read by the check: contained, the response has the single A
\* record of the name with 192.168.0.11 and no Extra; not contained, nothing
\* is written.
C12_LookupForEveryType ==
    \A h \in Handlers :
        (/\ pc[h] \in {"runlock", "done"}
         /\ ~(Q1(h).Qtype = "NS" /\ Q1(h).Name = ParentZone)) =>
            IF Q1(h).Name \in Range(regAtCheck[h])
            THEN /\ Len(sent[h]) = 1
                 /\ sent[h][1].Extra = <<>>
                 /\ Len(sent[h][1].Answer) = 1
                 /\ sent[h][1].Answer[1].fields = ARecordOf(Q1(h).Name)
                 /\ sent[h][1].Answer[1].fields.data = FixedIP
            ELSE sent[h] = <<>>

\* An NS query for a registered name and an MX query for the parent zone were
\* both answered with the A record of the name asked.
C12_Witness ==
    \E h \in Handlers, g \in Handlers :
        /\ pc[h] = "done" /\ Q1(h) = [Name |-> "www.t.example.com.", Qtype |-> "NS"]
        /\ Len(sent[h]) = 1 /\ sent[h][1].Answer[1].fields.rrtype = "A"
        /\ pc[g] = "done" /\ Q1(g) = [Name |-> ParentZone, Qtype |-> "MX"]
        /\ Len(sent[g]) = 1 /\ sent[g][1].Answer[1].fields = ARecordOf(ParentZone)
\* The keys a step adds to rrCache.
NewKeys == DOMAIN rrCache' \ DOMAIN rrCache

\* C13: every key of rrCache is the NS text, the glue text, or the A text
\* N 5 IN A 192.168.0.11 of a name N that was in the registry when the query
\* for N was accepted; a dropped query adds no key; a key added by a query
\* checked against the default registry is derived from a default name.
C13_CacheKeys ==
    /\ [](DOMAIN rrCache \subseteq
              {NSText, GlueText} \cup
              {AText(n) : n \in UNION {Range(Arrays[a]) : a \in ArrayIds}})
    /\ [][\A k \in NewKeys :
             \E h \in Handlers :
                 /\ pc[h] = "store" /\ arg[h] = k
                 /\ \/ site[h] = "ns" /\ IsDelegation(query[h]) /\ k = NSText
                    \/ site[h] = "glue" /\ IsDelegation(query[h]) /\ k = GlueText
                    \/ /\ site[h] = "a" /\ ~IsDelegation(query[h])
                       /\ k = AText(Q1(h).Name)
                       /\ Q1(h).Name \in Range(regAtCheck[h])
                       /\ regAtCheck[h] = defaultSubdomains =>
                              k \in {AText(n) : n \in DefaultNames}]_vars
    /\ [][\A h \in Handlers :
             (pc[h] = "readLen" /\ pc'[h] = "runlock") => rrCache' = rrCache]_vars
    /\ [](\A h \in Handlers :
             (Checked(h) /\ ~found[h]) =>
                 (pc[h] \in {"runlock", "done"} /\ r[h] = NoRR /\ ret[h] = NoRR))

\* The cache holds the A text of a name of a replaced registry and the NS
\* text, and a query for an unregistered name was dropped.
C13_Witness ==
    /\ {NSText, AText("WWW.t.example.com.")} \subseteq DOMAIN rrCache
    /\ \E h \in Handlers : pc[h] = "done" /\ Checked(h) /\ ~found[h]
\* The records of a message, Answer then Extra.
RecordsOf(msg) == Range(msg.Answer) \cup Range(msg.Extra)

\* rec is an object that a dns.NewRR call inside newRR built from its own text.
BuiltByNewRR(rec) ==
    /\ rec.alloc[1] \in Texts
    /\ rec.alloc[2] \in 1..nBuilt[rec.alloc[1]]
    /\ rec.fields = ParseRR(rec.alloc[1])

\* C14: every record in the Answer or Extra of a response handed to WriteMsg
\* is a value a newRR call returned for its text, and when the response is
\* written rrCache holds an entry under the text of each of its records.
C14_RecordsComeFromCache ==
    \A h \in Handlers :
        /\ \A i \in 1..Len(sent[h]) : \A rec \in RecordsOf(sent[h][i]) :
               BuiltByNewRR(rec) /\ rec.alloc[1] \in DOMAIN rrCache
        /\ pc[h] = "write" =>
               /\ RecordsOf(m[h]) # {}
               /\ \A rec \in RecordsOf(m[h]) :
                      BuiltByNewRR(rec) /\ rec.alloc[1] \in DOMAIN rrCache
               /\ ret[h] \in RecordsOf(m[h])
               /\ site[h] = "a" => m[h].Answer = <<ret[h]>> /\ ret[h].alloc[1] = arg[h]
               /\ site[h] = "glue" =>
                      /\ m[h].Extra = <<ret[h]>> /\ ret[h].alloc[1] = GlueText
                      /\ Len(m[h].Answer) = 1 /\ m[h].Answer[1].alloc[1] = NSText

\* A delegation response is about to be written whose NS record is an
\* instance built by this call and since replaced in the cache by another.
C14_Witness ==
    \E h \in Handlers :
        /\ pc[h] = "write" /\ site[h] = "glue"
        /\ NSText \in DOMAIN rrCache
        /\ m[h].Answer[1] # rrCache[NSText]
\* C15: rrCache starts empty and is never cleared or evicted from: its key
\* set only grows, by at most the one key a newRR call stores, and no step of
\* resetSubdomains changes it.
C15_CacheOnlyGrows ==
    /\ DOMAIN rrCache = {}
    /\ [][/\ DOMAIN rrCache \subseteq DOMAIN rrCache'
          /\ Cardinality(NewKeys) <= 1
          /\ (wpc' # wpc \/ subdomains' # subdomains \/ writer' # writer) =>
                 rrCache' = rrCache]_vars

\* resetSubdomains has run to completion after the cache was filled with the
\* NS, the glue and an A text, and all three are still there.
C15_Witness ==
    /\ wop = "reset" /\ wpc = "idle" /\ writer = "none"
    /\ {NSText, GlueText, AText("www.t.example.com.")} \subseteq DOMAIN rrCache
    /\ \A h \in Handlers : pc[h] \in {"idle", "done"}
\* The handler is inside, or back from, a newRR call on a text that is not a
\* record.
OnMalformed(h) == pc[h] \notin {"idle", "rlock", "readPtr", "readLen"} /\ site[h] = "a"
                      /\ ParseRR(arg[h]) = NilFields

\* C16: for a malformed text S every call newRR(S), the first and every one
\* made after the nil result was stored under S, returns the nil record
\* without raising an error or aborting.
C16_MalformedReturnsNil ==
    \A h \in Handlers :
        /\ pc[h] # "panic"
        /\ (OnMalformed(h) /\ pc[h] \in {"write", "runlock", "done"}) => ret[h] = NoRR
\* The content of the messages a handler passed to WriteMsg: the parsed
\* records of each Answer and Extra list.
ContentOf(msgs) ==
    [i \in 1..Len(msgs) |->
        [Answer |-> [j \in 1..Len(msgs[i].Answer) |-> msgs[i].Answer[j].fields],
         Extra |-> [j \in 1..Len(msgs[i].Extra) |-> msgs[i].Extra[j].fields]]]

\* C17: only the first question is inspected: two queries with the same first
\* question, whatever their later questions, handled against the same registry
\* value (any registry for the delegation question) end with the same
\* decision, respond or drop, and the same Answer and Extra records.
C17_OnlyFirstQuestion ==
    \A h \in Handlers, g \in Handlers :
        (/\ pc[h] = "done" /\ pc[g] = "done"
         /\ Q1(h) = Q1(g)
         /\ \/ regAtCheck[h] = regAtCheck[g]
            \/ Q1(h).Qtype = "NS" /\ Q1(h).Name = ParentZone) =>
            /\ Len(sent[h]) = Len(sent[g])
            /\ ContentOf(sent[h]) = ContentOf(sent[g])

\* A one-question and a two-question query with the same first question were
\* both answered, each with one record in Answer.
C17_Witness ==
    \E h \in Handlers, g \in Handlers :
        /\ pc[h] = "done" /\ pc[g] = "done"
        /\ Q1(h) = Q1(g) /\ Len(query[h]) = 1 /\ Len(query[g]) = 2
        /\ query[g][2] # Q1(g)
        /\ Len(sent[h]) = 1 /\ Len(sent[g]) = 1
        /\ Len(sent[g][1].Answer) = 1
\* C18: on the lookup path the read lock taken before the membership check is
\* held until handle returns, so the registry cannot change between the check
\* and the send: from the check that found N until the A response for N has
\* been written, the handler holds the read lock, no writer holds the lock,
\* the registry is the one the check read, and N is an element of it.
C18_LockHeldUntilWritten ==
    \A h \in Handlers :
        (site[h] = "a" /\ pc[h] \in {"load", "store", "write", "runlock"}) =>
            /\ h \in readers
            /\ writer # "held"
            /\ subdomains = snap[h]
            /\ Registry = regAtCheck[h]
            /\ Q1(h).Name \in Range(Registry)
            /\ pc[h] = "write" => m[h].Answer[1].fields.name = Q1(h).Name
            /\ pc[h] = "runlock" => Len(sent[h]) = 1

\* The A response for a name is about to be written while a replacement by a
\* list without that name waits in Lock.
C18_Witness ==
    \E h \in Handlers :
        /\ pc[h] = "write" /\ site[h] = "a"
        /\ wop = "replace" /\ wpc = "wait" /\ writer = "pending"
        /\ Q1(h).Name \notin Range(Arrays[wtarget])
\* C19: no lock is leaked and nothing deadlocks: a handler holds the read
\* lock only between its RLock and its return, never twice, a handler that
\* has returned holds nothing, an idle resetSubdomains holds nothing; and
\* under fair scheduling every started resetSubdomains completes and every
\* started handle invocation terminates.
C19_NoLeakNoDeadlock ==
    /\ [](\A h \in Handlers :
             /\ pc[h] \in {"idle", "rlock", "done"} => h \notin readers
             /\ pc[h] \in {"readPtr", "readLen", "runlock"} => h \in readers)
    /\ [](wpc = "idle" => writer = "none")
    /\ [][\A h \in Handlers : h \in readers' \ readers => pc[h] = "rlock"]_vars
    /\ (wpc # "idle") ~> (wpc = "idle")
    /\ \A h \in Handlers : (pc[h] \notin {"idle", "done"}) ~> (pc[h] = "done")

\* Both handlers have returned, one after a drop and one after a response on
\* the lookup path, a resetSubdomains has completed, and no lock is held.
C19_Witness ==
    /\ wop = "reset" /\ wpc = "idle" /\ writer = "none" /\ readers = {}
    /\ \E h \in Handlers, g \in Handlers :
          /\ pc[h] = "done" /\ snap[h] # NoHeader /\ ~found[h]
          /\ pc[g] = "done" /\ snap[g] # NoHeader /\ found[g] /\ Len(sent[g]) = 1
\* The handler is handling a query whose first question is (NS, t.example.com.).
OnDelegation(h) ==
    pc[h] # "idle" /\ Q1(h).Qtype = "NS" /\ Q1(h).Name = ParentZone

\* C20: the delegation path never takes the registry lock and never reads
\* subdomains: a handler of the delegation query is never a reader, never at
\* a step of the lookup path, has read no slice header, and its next step can
\* be taken whatever resetSubdomains is doing, lock held or awaited included.
C20_DelegationLockFree ==
    \A h \in Handlers :
        OnDelegation(h) =>
            /\ h \notin readers
            /\ pc[h] \in {"load", "store", "write", "done"}
            /\ site[h] \in {"ns", "glue"}
            /\ snap[h] = NoHeader /\ regAtCheck[h] = <<>> /\ ~found[h]
            /\ pc[h] # "done" => ENABLED (Load(h) \/ Store(h) \/ WriteMsg(h))

\* A delegation response is being written while resetSubdomains holds the
\* write lock, halfway through its assignment, and the other handler is
\* blocked in RLock.
C20_Witness ==
    \E h \in Handlers, g \in Handlers :
        /\ OnDelegation(h) /\ pc[h] = "write"
        /\ writer = "held" /\ wpc = "wlen"
        /\ pc[g] = "rlock"
====
